---- MODULE Spec2Model ----
(***************************************************************************)
(* Model of the LOVAC vacant-housing dashboard (tomscsr/streamlit_dataviz): *)
(* the two CSV loaders (utils/io.py), the preparation functions            *)
(* (utils/prep.py), the data-loading entry point of app.py and the parts   *)
(* of the pages that derive rates and validation counts.                   *)
(*                                                                         *)
(* Numbers are pandas/numpy float64 values: a float is NaN, +inf, -inf or  *)
(* an exact rational n/d.  Cell texts are sequences of characters.         *)
(***************************************************************************)
EXTENDS Integers, Sequences, FiniteSets, TLC

VARIABLES
    cell,          \* SpecNorm: the raw text of one CSV cell
    cell_loader,   \* SpecNorm: which loader cleaned it ("none" before)
    cell_value,    \* SpecNorm: the float the loader stored for it
    header_bytes,  \* SpecRead: the bytes of one header field of the CSV file
    df_columns,    \* SpecRead: the column name the loader made of them
    df_kind,       \* SpecPrep: "dept" or "commune": which table df is
    df_raw,        \* SpecPrep: the rows of the CSV file, every cell a text
    df,            \* SpecPrep: the loaded table handed to the functions
    out,           \* SpecPrep: what the last function called returned
    pc,            \* Spec: position of app.py's run
    dept_file,     \* Spec: the department CSV on disk
    commune_file,  \* Spec: the commune CSV on disk
    df_dept,       \* Spec: what load_department_data returned
    df_commune,    \* Spec: what load_commune_data returned
    quality_report,\* Spec: the report of load_all_data
    st_errors,     \* Spec: the st.error messages displayed so far
    page_model     \* Spec: model = get_data() of the pages (<<>> before it is built)

readvars == <<header_bytes, df_columns>>
normvars == <<cell, cell_loader, cell_value, header_bytes, df_columns>>
prepvars == <<df_kind, df_raw, df, out>>
appvars == <<pc, dept_file, commune_file, df_dept, df_commune, quality_report, st_errors,
            page_model>>
vars == <<cell, cell_loader, cell_value, header_bytes, df_columns,
          df_kind, df_raw, df, out,
          pc, dept_file, commune_file, df_dept, df_commune, quality_report, st_errors,
          page_model>>

-----------------------------------------------------------------------------
(* float64 values *)

NaN == [k |-> "nan", n |-> 0, d |-> 1]
PosInf == [k |-> "inf", n |-> 1, d |-> 1]
NegInf == [k |-> "inf", n |-> -1, d |-> 1]

Abs(x) == IF x < 0 THEN -x ELSE x

RECURSIVE GCD(_, _)
GCD(a, b) == IF b = 0 THEN a ELSE GCD(b, a % b)

\* the rational n/d (d # 0) in lowest terms with a positive denominator
Frac(n, d) ==
    LET g == GCD(Abs(n), Abs(d))
        s == IF d < 0 THEN -1 ELSE 1
    IN  [k |-> "num", n |-> (s * n) \div g, d |-> Abs(d) \div g]

Num(i) == [k |-> "num", n |-> i, d |-> 1]

isna(x) == x.k = "nan"
notna(x) == x.k # "nan"
isfinite(x) == x.k = "num"

\* a / b as IEEE-754 division does it: x/0 is +-inf, 0/0 and NaN operands give NaN
Div(a, b) ==
    IF isna(a) \/ isna(b) THEN NaN
    ELSE IF b.k = "inf" THEN (IF a.k = "inf" THEN NaN ELSE Num(0))
    ELSE IF a.k = "inf" THEN (IF b.n >= 0 THEN a ELSE [a EXCEPT !.n = -a.n])
    ELSE IF b.n = 0 THEN (IF a.n = 0 THEN NaN ELSE IF a.n > 0 THEN PosInf ELSE NegInf)
    ELSE Frac(a.n * b.d, a.d * b.n)

\* a * c for a positive integer c
Times(a, c) == IF a.k = "num" THEN Frac(a.n * c, a.d) ELSE a

Minus(a, b) ==
    IF isna(a) \/ isna(b) THEN NaN
    ELSE IF a.k = "inf" THEN (IF b.k = "inf" /\ b.n = a.n THEN NaN ELSE a)
    ELSE IF b.k = "inf" THEN [b EXCEPT !.n = -b.n]
    ELSE Frac(a.n * b.d - b.n * a.d, a.d * b.d)

Plus(a, b) ==
    IF isna(a) \/ isna(b) THEN NaN
    ELSE IF a.k = "inf" THEN (IF b.k = "inf" /\ b.n # a.n THEN NaN ELSE a)
    ELSE IF b.k = "inf" THEN b
    ELSE Frac(a.n * b.d + b.n * a.d, a.d * b.d)

\* a > b; every comparison with NaN is False
Gt(a, b) ==
    IF isna(a) \/ isna(b) THEN FALSE
    ELSE IF a.k = "inf" THEN a.n > 0 /\ b # a
    ELSE IF b.k = "inf" THEN b.n < 0
    ELSE a.n * b.d > b.n * a.d

Lt(a, b) == Gt(b, a)

\* the integer nearest n/d (d > 0), ties to the even one
RoundHalfEven(n, d) ==
    LET q == n \div d
        r == n % d
    IN  IF 2 * r < d THEN q
        ELSE IF 2 * r > d THEN q + 1
        ELSE IF q % 2 = 0 THEN q ELSE q + 1

\* round(x, 2) / Series.round(2): NaN and +-inf stay
round2(x) == IF x.k = "num" THEN Frac(RoundHalfEven(x.n * 100, x.d), 100) ELSE x

\* Series.sum(): NaN skipped, 0 for an empty or all-NaN series
RECURSIVE SumSeq(_)
SumSeq(s) ==
    IF s = <<>> THEN Num(0)
    ELSE IF isna(Head(s)) THEN SumSeq(Tail(s))
    ELSE Plus(Head(s), SumSeq(Tail(s)))

-----------------------------------------------------------------------------
(* cell texts *)

NBSP == "nbsp"   \* the non-breaking space U+00A0, one character

DigitChars == <<"0", "1", "2", "3", "4", "5", "6", "7", "8", "9">>
IsDigit(c) == \E i \in 1..10 : DigitChars[i] = c
DigitVal(c) == (CHOOSE i \in 1..10 : DigitChars[i] = c) - 1

RECURSIVE Pow10(_)
Pow10(e) == IF e = 0 THEN 1 ELSE 10 * Pow10(e - 1)

RECURSIVE DigitsToInt(_)
DigitsToInt(s) ==
    IF s = <<>> THEN 0
    ELSE DigitsToInt(SubSeq(s, 1, Len(s) - 1)) * 10 + DigitVal(s[Len(s)])

AllDigits(s) == \A i \in 1..Len(s) : IsDigit(s[i])

\* the characters of s from which one end's run of characters of ws is dropped
RECURSIVE lstrip(_, _)
lstrip(s, ws) == IF s # <<>> /\ Head(s) \in ws THEN lstrip(Tail(s), ws) ELSE s
RECURSIVE rstrip(_, _)
rstrip(s, ws) ==
    IF s # <<>> /\ s[Len(s)] \in ws THEN rstrip(SubSeq(s, 1, Len(s) - 1), ws) ELSE s

\* Python str.strip(): every Unicode white space, U+00A0 included
str_strip(s) == rstrip(lstrip(s, {" ", NBSP}), {" ", NBSP})

\* Python str.replace(' ', ''): the ordinary space only
RECURSIVE str_replace_space(_)
str_replace_space(s) ==
    IF s = <<>> THEN <<>>
    ELSE IF Head(s) = " " THEN str_replace_space(Tail(s))
    ELSE <<Head(s)>> \o str_replace_space(Tail(s))

str_lower(s) == [i \in 1..Len(s) |-> IF s[i] = "S" THEN "s" ELSE s[i]]

\* the number parser under pd.to_numeric, on one string: it skips ASCII white
\* space at both ends, takes an optional sign, digits with at most one decimal
\* point and at least one digit, or the word nan; NaN stands for a text that
\* does not parse
xstrtod(s) ==
    LET t == rstrip(lstrip(s, {" "}), {" "})
        neg == t # <<>> /\ Head(t) = "-"
        u == IF neg THEN Tail(t) ELSE t
        sgn == IF neg THEN -1 ELSE 1
        dots == {i \in 1..Len(u) : u[i] = "."}
    IN  IF u = <<>> THEN NaN
        ELSE IF u = <<"n", "a", "n">> THEN NaN
        ELSE IF dots = {} THEN
            (IF AllDigits(u) THEN Num(sgn * DigitsToInt(u)) ELSE NaN)
        ELSE IF Cardinality(dots) = 1 THEN
            LET p == CHOOSE i \in dots : TRUE
                ip == SubSeq(u, 1, p - 1)
                fp == SubSeq(u, p + 1, Len(u))
            IN  IF AllDigits(ip) /\ AllDigits(fp) /\ Len(ip) + Len(fp) >= 1
                THEN Frac(sgn * (DigitsToInt(ip) * Pow10(Len(fp)) + DigitsToInt(fp)),
                          Pow10(Len(fp)))
                ELSE NaN
        ELSE NaN

\* errors='coerce': a text that does not parse is stored as NaN
to_numeric_raise(s) ==
    IF isna(xstrtod(s)) /\ s # <<"n", "a", "n">> THEN [k |-> "ValueError", n |-> 0, d |-> 1]
    ELSE xstrtod(s)
to_numeric_fill0(s) == IF isna(xstrtod(s)) THEN Num(0) ELSE xstrtod(s)
to_numeric(s) == xstrtod(s)

\* A cell as pd.read_csv leaves it: NA for the default NA texts, else its text
NA == [na |-> TRUE, s |-> <<>>]
Text(s) == [na |-> FALSE, s |-> s]
read_csv_cell(raw) ==
    IF raw \in {<<>>, <<"n", "a", "n">>, <<"-", "n", "a", "n">>} THEN NA ELSE Text(raw)

\* Series.astype(str): a missing cell becomes the text nan
astype_str(c) == IF c.na THEN <<"n", "a", "n">> ELSE c.s

\* load_department_data, one cell of a column other than DEP and LIB_DEP
clean_department_value(raw) ==
    to_numeric(str_replace_space(str_strip(astype_str(read_csv_cell(raw)))))

\* Series.replace('s', pd.NA): a cell that is exactly the text s
replace_s_zero(c) == IF ~c.na /\ c.s = <<"s">> THEN Text(<<"0">>) ELSE c
replace_s(c) == IF ~c.na /\ c.s = <<"s">> THEN NA ELSE c

\* load_commune_data, one cell of a pp_ column
clean_commune_value(raw) ==
    LET c == replace_s(read_csv_cell(raw))
    IN  IF c.na THEN NaN ELSE to_numeric(c.s)

\* str(i) of an integer i >= 0
RECURSIVE IntToText(_)
IntToText(i) ==
    IF i < 10 THEN <<DigitChars[i + 1]>>
    ELSE IntToText(i \div 10) \o <<DigitChars[(i % 10) + 1]>>

\* the number of decimals of the terminating decimal with denominator d
RECURSIVE DecimalPlaces(_, _)
DecimalPlaces(d, k) == IF Pow10(k) % d = 0 THEN k ELSE DecimalPlaces(d, k + 1)

PadZeros(s, n) == [i \in 1..(n - Len(s)) |-> "0"] \o s

\* Series.astype(str) on a column pd.read_csv parsed as numbers: str of an int64,
\* repr of a float64 (nan, or digits.digits: the exponent form of values from
\* 1e16 or below 1e-4 is not reached by the cells considered)
numeric_str_int(v, dtype) ==
    IF isna(v) THEN <<"n", "a", "n">>
    ELSE (IF v.n < 0 THEN <<"-">> ELSE <<>>) \o IntToText(Abs(v.n) \div v.d)
numeric_str(v, dtype) ==
    IF isna(v) THEN <<"n", "a", "n">>
    ELSE LET sign == IF v.n < 0 THEN <<"-">> ELSE <<>>
             k == DecimalPlaces(v.d, 0)
             scaled == Abs(v.n) * (Pow10(k) \div v.d)
         IN  IF dtype = "int64" THEN sign \o IntToText(Abs(v.n))
             ELSE sign \o IntToText(scaled \div Pow10(k)) \o <<".">>
                    \o (IF k = 0 THEN <<"0">>
                        ELSE PadZeros(IntToText(scaled % Pow10(k)), k))

\* the dtypes pd.read_csv gives a column that holds the number v
dtypes_of(v) == IF isfinite(v) /\ v.d = 1 THEN {"int64", "float64"} ELSE {"float64"}

\* load_department_data, one cell of a column that is already numeric
clean_department_numeric(v, dtype) ==
    to_numeric(str_replace_space(str_strip(numeric_str(v, dtype))))

\* load_commune_data, one cell of a pp_ column that is already numeric: replace
\* finds no text s and pd.to_numeric returns the numbers it is given
clean_commune_numeric(v) == v

-----------------------------------------------------------------------------
(* SpecNorm: the two loaders' cleaning of one cell *)

MaxLen == 3
Alphabet == {"0", "1", " ", NBSP, "s", "S", "n", "a", "-", "."}
Paris24 == << <<"1", " ", "0", "0", "0", " ", "0", "0", "0">>,
              <<"8", "0", " ", "0", "0", "0">>,
              <<"4", "0", " ", "0", "0", "0">> >>
RawCells == (UNION {[1..n -> Alphabet] : n \in 0..MaxLen})
            \cup {Paris24[i] : i \in 1..3}

ReadIdle == header_bytes = <<>> /\ df_columns = [loader |-> "none"]
PrepIdle == df_kind = "none" /\ df_raw = <<>> /\ df = <<>> /\ out = [op |-> "none"]
AppIdle ==
    /\ pc = "idle" /\ dept_file = <<>> /\ commune_file = <<>>
    /\ df_dept = <<>> /\ df_commune = <<>> /\ quality_report = <<>> /\ st_errors = <<>>
    /\ page_model = <<>>

InitNorm ==
    /\ cell \in RawCells
    /\ cell_loader = "none"
    /\ cell_value = NaN
    /\ ReadIdle /\ PrepIdle /\ AppIdle

NormalizeDepartment ==
    /\ cell_loader = "none"
    /\ cell_loader' = "department"
    /\ cell_value' = clean_department_value(cell)
    /\ UNCHANGED <<cell, readvars, prepvars, appvars>>

NormalizeCommune ==
    /\ cell_loader = "none"
    /\ cell_loader' = "commune"
    /\ cell_value' = clean_commune_value(cell)
    /\ UNCHANGED <<cell, readvars, prepvars, appvars>>

\* the cleaning applied to a cell that is already a number; cell_loader then
\* names the first cleaning and the second
RenormalizeDepartment ==
    /\ cell_loader \in {"department", "commune"}
    /\ cell_loader' = (IF cell_loader = "department" THEN "department,department"
                       ELSE "commune,department")
    /\ \E dtype \in dtypes_of(cell_value) :
        cell_value' = clean_department_numeric(cell_value, dtype)
    /\ UNCHANGED <<cell, readvars, prepvars, appvars>>

RenormalizeCommune ==
    /\ cell_loader \in {"department", "commune"}
    /\ cell_loader' = (IF cell_loader = "department" THEN "department,commune"
                       ELSE "commune,commune")
    /\ cell_value' = clean_commune_numeric(cell_value)
    /\ UNCHANGED <<cell, readvars, prepvars, appvars>>

NextNorm ==
    \/ NormalizeDepartment
    \/ NormalizeCommune
    \/ RenormalizeDepartment
    \/ RenormalizeCommune

SpecNorm == InitNorm /\ [][NextNorm]_vars

\* the suppression token in any letter case, a blank cell, the word na
IsSuppressedOrBlank(s) ==
    \/ str_lower(s) = <<"s">>
    \/ \A i \in 1..Len(s) : s[i] \in {" ", NBSP}
    \/ s = <<"n", "a">>

\* the digits left when every ordinary and non-breaking space is removed
RECURSIVE RemoveSpaces(_)
RemoveSpaces(s) ==
    IF s = <<>> THEN <<>>
    ELSE IF Head(s) \in {" ", NBSP} THEN RemoveSpaces(Tail(s))
    ELSE <<Head(s)>> \o RemoveSpaces(Tail(s))

IsThousandsGrouped(s) ==
    /\ RemoveSpaces(s) # <<>>
    /\ AllDigits(RemoveSpaces(s))

\* C2: in either loader the suppression token (s, S), a blank cell and the word
\* na are stored as missing (NaN), never as 0 or any other number.
C2_SuppressedIsMissing ==
    (cell_loader # "none" /\ IsSuppressedOrBlank(cell)) => cell_value = NaN

C2_Witness ==
    cell_loader = "commune" /\ cell = <<"S">> /\ cell_value = NaN

\* C10 (as claimed): in both loaders a thousands-grouped text is stored as the
\* number left after every ordinary and every non-breaking space is removed.
C10_ThousandsParsed ==
    (cell_loader # "none" /\ IsThousandsGrouped(cell))
        => cell_value = Num(DigitsToInt(RemoveSpaces(cell)))

-----------------------------------------------------------------------------
(* loaded tables: a sequence of rows, each with its key columns and its    *)
(* metric cells; a column is named by the pair <<base, year suffix>>       *)

years == <<"20", "21", "22", "23", "24", "25">>
YearSet == {years[i] : i \in 1..Len(years)}
YearIndex(y) == CHOOSE i \in 1..Len(years) : years[i] = y
\* int(f"20{year}")
year_full_1900(y) == 1919 + YearIndex(y)
year_full(y) == 2019 + YearIndex(y)
\* str(int(year) - 1)
prev_year_of_same(y) == y
prev_year_of(y) == IF YearIndex(y) > 1 THEN years[YearIndex(y) - 1] ELSE "19"

col(base, y) == <<base, y>>
\* pp_total_25 is not a column of either file
MetricColumns ==
    ({"pp_total", "pp_vacant", "pp_vacant_plus_2ans"} \X YearSet) \ {col("pp_total", "25")}

has_column(d, c) == d # <<>> /\ c \in DOMAIN d[1].cells
\* row.get(c, np.nan) / df.get(c, np.nan)
row_get(r, c) == IF c \in DOMAIN r.cells THEN r.cells[c] ELSE NaN

\* rate.replace([np.inf, -np.inf], np.nan)
replace_inf(x) == IF x.k = "inf" THEN NaN ELSE x

\* For 2025, use 2024 total as pp_total_25 doesn't exist
total_col_of(y) == IF y # "25" THEN col("pp_total", y) ELSE col("pp_total", "24")

\* the rate of one row: (numerator / denominator * 100).round(2)
rate_of_no_percent(num, den) == round2(Div(num, den))
rate_of(num, den) == round2(Times(Div(num, den), 100))

calculate_vacancy_rate(d, year_suffix) ==
    LET vacant_col == col("pp_vacant", year_suffix)
        total_col == total_col_of(year_suffix)
    IN  IF has_column(d, vacant_col) /\ has_column(d, total_col)
        THEN [i \in 1..Len(d) |->
                replace_inf(rate_of(d[i].cells[vacant_col], d[i].cells[total_col]))]
        ELSE [i \in 1..Len(d) |-> NaN]

calculate_longterm_vacancy_rate(d, year_suffix) ==
    LET longterm_col == col("pp_vacant_plus_2ans", year_suffix)
        total_col == total_col_of(year_suffix)
    IN  IF has_column(d, longterm_col) /\ has_column(d, total_col)
        THEN [i \in 1..Len(d) |->
                replace_inf(rate_of(d[i].cells[longterm_col], d[i].cells[total_col]))]
        ELSE [i \in 1..Len(d) |-> NaN]

\* one record of prepare_department_timeseries: the row and the year suffix
timeseries_record_swapped(row, year) ==
    [DEP |-> row.keys.DEP,
     LIB_DEP |-> row.keys.LIB_DEP,
     year |-> year_full(year),
     total_properties |-> row_get(row, col("pp_total", year)),
     vacant_properties |-> row_get(row, col("pp_vacant_plus_2ans", year)),
     vacant_2plus_years |-> row_get(row, col("pp_vacant", year)),
     vacancy_rate |-> NaN, longterm_vacancy_rate |-> NaN, longterm_share |-> NaN]
timeseries_record(row, year) ==
    LET total == row_get(row, col("pp_total", year))
        vacant == row_get(row, col("pp_vacant", year))
        vacant_2y == row_get(row, col("pp_vacant_plus_2ans", year))
        vacancy_rate == IF notna(total) /\ Gt(total, Num(0))
                        THEN Times(Div(vacant, total), 100) ELSE NaN
        longterm_rate == IF notna(total) /\ Gt(total, Num(0))
                         THEN Times(Div(vacant_2y, total), 100) ELSE NaN
        longterm_share == IF notna(vacant) /\ Gt(vacant, Num(0))
                          THEN Times(Div(vacant_2y, vacant), 100) ELSE NaN
    IN  [DEP |-> row.keys.DEP,
         LIB_DEP |-> row.keys.LIB_DEP,
         year |-> year_full(year),
         total_properties |-> total,
         vacant_properties |-> vacant,
         vacant_2plus_years |-> vacant_2y,
         vacancy_rate |-> IF notna(vacancy_rate) THEN round2(vacancy_rate) ELSE NaN,
         longterm_vacancy_rate |-> IF notna(longterm_rate) THEN round2(longterm_rate) ELSE NaN,
         longterm_share |-> IF notna(longterm_share) THEN round2(longterm_share) ELSE NaN]

\* records in the order of the loops: rows outside, years inside
prepare_department_timeseries_dropna(d) ==
    SelectSeq([k \in 1..(Len(d) * Len(years)) |->
                  timeseries_record(d[((k - 1) \div Len(years)) + 1],
                                    years[((k - 1) % Len(years)) + 1])],
              LAMBDA r : notna(r.total_properties))
prepare_department_timeseries(d) ==
    [k \in 1..(Len(d) * Len(years)) |->
        timeseries_record(d[((k - 1) \div Len(years)) + 1],
                          years[((k - 1) % Len(years)) + 1])]

column_sum_propagate(d, c) ==
    IF \E i \in 1..Len(d) : isna(d[i].cells[c]) THEN NaN
    ELSE SumSeq([i \in 1..Len(d) |-> d[i].cells[c]])
\* df[c].sum()
column_sum(d, c) == SumSeq([i \in 1..Len(d) |-> d[i].cells[c]])

national_record_mean(d, year) ==
    LET rates == calculate_vacancy_rate(d, year)
        longterm == calculate_longterm_vacancy_rate(d, year)
    IN  [year |-> year_full(year),
         total_properties |-> column_sum(d, total_col_of(year)),
         vacant_properties |-> column_sum(d, col("pp_vacant", year)),
         vacant_2plus_years |-> column_sum(d, col("pp_vacant_plus_2ans", year)),
         vacancy_rate |-> round2(Div(SumSeq(rates), Num(Len(d)))),
         longterm_vacancy_rate |-> round2(Div(SumSeq(longterm), Num(Len(d)))),
         longterm_share |-> NaN]
national_record(d, year) ==
    LET total_col == total_col_of(year)
        total == IF has_column(d, total_col) THEN column_sum(d, total_col) ELSE NaN
        vacant == IF has_column(d, col("pp_vacant", year))
                  THEN column_sum(d, col("pp_vacant", year)) ELSE NaN
        vacant_2y == IF has_column(d, col("pp_vacant_plus_2ans", year))
                     THEN column_sum(d, col("pp_vacant_plus_2ans", year)) ELSE NaN
        vacancy_rate == IF Gt(total, Num(0)) THEN Times(Div(vacant, total), 100) ELSE NaN
        longterm_rate == IF Gt(total, Num(0)) THEN Times(Div(vacant_2y, total), 100) ELSE NaN
        longterm_share == IF Gt(vacant, Num(0)) THEN Times(Div(vacant_2y, vacant), 100) ELSE NaN
    IN  [year |-> year_full(year),
         total_properties |-> total,
         vacant_properties |-> vacant,
         vacant_2plus_years |-> vacant_2y,
         vacancy_rate |-> round2(vacancy_rate),
         longterm_vacancy_rate |-> round2(longterm_rate),
         longterm_share |-> round2(longterm_share)]

prepare_national_aggregates(d) == [j \in 1..Len(years) |-> national_record(d, years[j])]

\* prepare_department_snapshot: the columns of the result and its rows (a row's
\* vacant_change fields are NaN when the columns are not added)
prepare_department_snapshot(d, year) ==
    LET total_col == total_col_of(year)
        prev_year == prev_year_of(year)
        with_change == prev_year \in {"20", "21", "22", "23", "24"}
        vr == calculate_vacancy_rate(d, year)
        lr == calculate_longterm_vacancy_rate(d, year)
        snap(i) ==
            LET total == IF has_column(d, total_col) THEN d[i].cells[total_col] ELSE NaN
                vacant == IF has_column(d, col("pp_vacant", year))
                          THEN d[i].cells[col("pp_vacant", year)] ELSE NaN
                vacant_2y == IF has_column(d, col("pp_vacant_plus_2ans", year))
                             THEN d[i].cells[col("pp_vacant_plus_2ans", year)] ELSE NaN
                prev_vacant == IF with_change THEN d[i].cells[col("pp_vacant", prev_year)]
                               ELSE NaN
                cur_vacant == d[i].cells[col("pp_vacant", year)]
            IN  [DEP |-> d[i].keys.DEP,
                 LIB_DEP |-> d[i].keys.LIB_DEP,
                 total_properties |-> total,
                 vacant_properties |-> vacant,
                 vacant_2plus_years |-> vacant_2y,
                 vacancy_rate |-> vr[i],
                 longterm_vacancy_rate |-> lr[i],
                 longterm_share |-> rate_of(vacant_2y, vacant),
                 vacant_change |-> IF with_change THEN Minus(cur_vacant, prev_vacant) ELSE NaN,
                 vacant_change_pct |->
                    IF with_change
                    THEN rate_of(Minus(cur_vacant, prev_vacant), prev_vacant) ELSE NaN]
    IN  [columns |-> {"DEP", "LIB_DEP", "total_properties", "vacant_properties",
                      "vacant_2plus_years", "vacancy_rate", "longterm_vacancy_rate",
                      "longterm_share"}
                     \cup (IF with_change THEN {"vacant_change", "vacant_change_pct"} ELSE {}),
         rows |-> [i \in 1..Len(d) |-> snap(i)]]

prepare_commune_snapshot(d, year) ==
    LET total_col == total_col_of(year)
        snap(i) ==
            LET total == row_get(d[i], total_col)
                vacant == row_get(d[i], col("pp_vacant", year))
                vacant_2y == row_get(d[i], col("pp_vacant_plus_2ans", year))
            IN  [keys |-> d[i].keys,
                 total_properties |-> total,
                 vacant_properties |-> vacant,
                 vacant_2plus_years |-> vacant_2y,
                 vacancy_rate |-> rate_of(vacant, total),
                 longterm_vacancy_rate |-> rate_of(vacant_2y, total),
                 longterm_share |-> rate_of(vacant_2y, vacant)]
    IN  [i \in 1..Len(d) |-> snap(i)]

\* the key columns of a table, named like the metric columns by tuples
key_columns(d) == IF d = <<>> THEN {} ELSE {<<name>> : name \in DOMAIN d[1].keys}
all_columns(d) == IF d = <<>> THEN {} ELSE key_columns(d) \cup DOMAIN d[1].cells

\* df.isna().sum() of one column (the key columns of the tables modelled hold no NaN)
missing_count_zeros(d, c) ==
    IF Len(c) = 1 THEN 0
    ELSE Cardinality({i \in 1..Len(d) : isna(d[i].cells[c]) \/ d[i].cells[c] = Num(0)})
missing_count(d, c) ==
    IF Len(c) = 1 THEN 0 ELSE Cardinality({i \in 1..Len(d) : isna(d[i].cells[c])})

\* df.duplicated().sum(): the rows equal to an earlier row
duplicated_count(d) ==
    Cardinality({i \in 1..Len(d) : \E j \in 1..(i - 1) : d[j] = d[i]})

\* identify_data_quality_issues: the report, and the table as the call leaves it
\* (the function only reads df)
quality_dropna(d) ==
    [report |-> [total_rows |-> Len(d),
                 missing_by_column |-> [c \in all_columns(d) |-> 0],
                 missing_percentage |-> [c \in all_columns(d) |-> Num(0)],
                 duplicates |-> duplicated_count(d)],
     df |-> SelectSeq(d, LAMBDA r : \A c \in DOMAIN r.cells : notna(r.cells[c]))]
identify_data_quality_issues(d) ==
    [report |-> [total_rows |-> Len(d),
                 missing_by_column |-> [c \in all_columns(d) |-> missing_count(d, c)],
                 missing_percentage |->
                    [c \in all_columns(d) |->
                        round2(Times(Div(Num(missing_count(d, c)), Num(Len(d))), 100))],
                 duplicates |-> duplicated_count(d)],
     df |-> d]

-----------------------------------------------------------------------------
(* build_model (utils/prep.py of the pages' generation) is not among the    *)
(* source files: the long-form table and by_dep_year follow the            *)
(* specification's Reshaper and Aggregator                                 *)

metric_of(base) ==
    IF base = "pp_total" THEN "total"
    ELSE IF base = "pp_vacant" THEN "vacant" ELSE "vacant_2y"

\* one observation per row and metric column, year = 2000 + YY
melt(d) ==
    {[row |-> i, keys |-> d[i].keys, metric |-> metric_of(c[1]),
      year |-> year_full(c[2]), value |-> d[i].cells[c]] :
        i \in 1..Len(d), c \in (IF d = <<>> THEN {} ELSE DOMAIN d[1].cells)}

\* the record of one department row and year: an absent metric column is 0, a
\* present but missing cell stays null, the rates are null unless total > 0
by_dep_year_record(row, year) ==
    LET value(base) == IF col(base, year) \in DOMAIN row.cells
                       THEN row.cells[col(base, year)] ELSE Num(0)
        total == value("pp_total")
        vacant == value("pp_vacant")
        vacant_2y == value("pp_vacant_plus_2ans")
    IN  [dep_code |-> row.keys.DEP, dep_name |-> row.keys.LIB_DEP,
         year |-> year_full(year),
         total |-> total, vacant |-> vacant, vacant_2y |-> vacant_2y,
         vacancy_rate |-> IF Gt(total, Num(0)) THEN Times(Div(vacant, total), 100) ELSE NaN,
         vacancy_2y_rate |-> IF Gt(total, Num(0)) THEN Times(Div(vacant_2y, total), 100)
                             ELSE NaN]

build_by_dep_year(d) ==
    [k \in 1..(Len(d) * Len(years)) |->
        by_dep_year_record(d[((k - 1) \div Len(years)) + 1],
                           years[((k - 1) % Len(years)) + 1])]

\* sorted(S) of a finite set of integers
RECURSIVE SortedSeq(_)
SortedSeq(S) ==
    IF S = {} THEN <<>>
    ELSE LET m == CHOOSE x \in S : \A y \in S : x <= y
         IN  <<m>> \o SortedSeq(S \ {m})

\* the assembled model of a department table: the long table, the
\* department-year records, the sorted years of the long table and the records
\* of the latest year
build_model(d) ==
    LET long == melt(d)
        by_dep == build_by_dep_year(d)
        ys == SortedSeq({o.year : o \in long})
    IN  [df_dep_long |-> long,
         by_dep_year |-> by_dep,
         years_available |-> ys,
         latest_dep |-> SelectSeq(by_dep, LAMBDA r : ys # <<>> /\ r.year = ys[Len(ys)])]

-----------------------------------------------------------------------------
(* the pages *)

\* max(years) of a non-empty list
list_max(s) == CHOOSE x \in {s[i] : i \in 1..Len(s)} : \A i \in 1..Len(s) : s[i] <= x

\* pages/1 Home: the department-year records of the latest available year
latest_data_first(model) ==
    SelectSeq(model.by_dep_year, LAMBDA r : r.year = model.years_available[1])
latest_data(model) ==
    SelectSeq(model.by_dep_year, LAMBDA r : r.year = list_max(model.years_available))

\* pages/2 National Trends: by_dep_year summed by year (groupby sorts the years),
\* restricted to the year range, the two rates then set from the summed counts
national_trend(by_dep, lo, hi) ==
    LET ys == SortedSeq({by_dep[k].year : k \in 1..Len(by_dep)})
        of_year(y) == SelectSeq(by_dep, LAMBDA r : r.year = y)
        rec(y) ==
            LET g == of_year(y)
                total == SumSeq([k \in 1..Len(g) |-> g[k].total])
                vacant == SumSeq([k \in 1..Len(g) |-> g[k].vacant])
                vacant_2y == SumSeq([k \in 1..Len(g) |-> g[k].vacant_2y])
            IN  [year |-> y, total |-> total, vacant |-> vacant, vacant_2y |-> vacant_2y,
                 vacancy_rate |-> IF Gt(total, Num(0))
                                  THEN Times(Div(vacant, total), 100) ELSE NaN,
                 vacancy_2y_rate |-> IF Gt(total, Num(0))
                                     THEN Times(Div(vacant_2y, total), 100) ELSE NaN]
    IN  SelectSeq([k \in 1..Len(ys) |-> rec(ys[k])], LAMBDA r : lo <= r.year /\ r.year <= hi)

\* (a > b).sum() over the records of a table
count_where(t, P(_)) == Cardinality({k \in 1..Len(t) : P(t[k])})

\* pages/6 Data Quality, tab "Validation Checks": the four counts, and
\* by_dep_year as the checks leave it (they only read it)
validation_checks_ge(by_dep) ==
    [invalid_vacant |-> count_where(by_dep, LAMBDA r : ~Lt(r.vacant, r.total)),
     invalid_2y |-> count_where(by_dep, LAMBDA r : Gt(r.vacant_2y, r.vacant)),
     negative_total |-> count_where(by_dep, LAMBDA r : Lt(r.total, Num(0))),
     negative_vacant |-> count_where(by_dep, LAMBDA r : Lt(r.vacant, Num(0))),
     by_dep_year |-> by_dep]
validation_checks(by_dep) ==
    [invalid_vacant |-> count_where(by_dep, LAMBDA r : Gt(r.vacant, r.total)),
     invalid_2y |-> count_where(by_dep, LAMBDA r : Gt(r.vacant_2y, r.vacant)),
     negative_total |-> count_where(by_dep, LAMBDA r : Lt(r.total, Num(0))),
     negative_vacant |-> count_where(by_dep, LAMBDA r : Lt(r.vacant, Num(0))),
     by_dep_year |-> by_dep]

RECURSIVE sum_values(_)
\* the NaN-skipping sum of the values of a finite set of observations
sum_values(S) ==
    IF S = {} THEN Num(0)
    ELSE LET x == CHOOSE x \in S : TRUE
         IN  IF isna(x.value) THEN sum_values(S \ {x})
             ELSE Plus(x.value, sum_values(S \ {x}))

\* pages/5 Commune Analysis: the pivot of the selected year's observations by
\* commune (aggfunc sum, absent columns and NaN filled with 0), the rates, the
\* minimum-dwellings filter; one record per commune kept
commune_data(com_long, selected_year, min_total) ==
    LET filtered == {o \in com_long : o.year = selected_year}
        groups == {o.keys : o \in filtered}
        pivot(g, m) ==
            sum_values({o \in filtered : o.keys = g /\ o.metric = m})
        rec(g) ==
            LET total == pivot(g, "total")
                vacant == pivot(g, "vacant")
                vacant_2y == pivot(g, "vacant_2y")
            IN  [keys |-> g, total |-> total, vacant |-> vacant, vacant_2y |-> vacant_2y,
                 vacancy_rate |-> IF Gt(total, Num(0)) THEN Times(Div(vacant, total), 100)
                                  ELSE Num(0),
                 vacancy_2y_rate |-> IF Gt(total, Num(0))
                                     THEN Times(Div(vacant_2y, total), 100) ELSE Num(0)]
    IN  {r \in {rec(g) : g \in groups} : ~Lt(r.total, Num(min_total))}

-----------------------------------------------------------------------------
(* the cleaning loops of the two loaders over the rows of a file *)

\* load_department_data: every column other than DEP and LIB_DEP
clean_department_rows(rows) ==
    [i \in 1..Len(rows) |->
        [keys |-> rows[i].keys,
         cells |-> [c \in DOMAIN rows[i].cells |-> clean_department_value(rows[i].cells[c])]]]

\* load_commune_data: every column whose name starts with pp_
clean_commune_rows(rows) ==
    [i \in 1..Len(rows) |->
        [keys |-> rows[i].keys,
         cells |-> [c \in DOMAIN rows[i].cells |-> clean_commune_value(rows[i].cells[c])]]]

-----------------------------------------------------------------------------
(* SpecPrep: the preparation functions and the pages' derivations, applied *)
(* to a loaded department or commune table                                 *)

MaxCount == 2

\* the texts a cell under study takes: the suppression token and small counts
RawVals == {<<"s">>} \cup {IntToText(i) : i \in 0..MaxCount}

\* every other cell holds a count that differs from year to year
DefaultText(c) ==
    IF c[1] = "pp_total" THEN IntToText(20 + 2 * YearIndex(c[2]))
    ELSE IF c[1] = "pp_vacant" THEN IntToText(2 + YearIndex(c[2]))
    ELSE IntToText(YearIndex(c[2]))

\* a file row whose cells of year fy (its denominator column, its vacant and its
\* long-term vacant column) hold t, v and v2
RawRow(keys, fy, t, v, v2) ==
    [keys |-> keys,
     cells |-> [c \in MetricColumns |->
                    IF c = total_col_of(fy) THEN t
                    ELSE IF c = col("pp_vacant", fy) THEN v
                    ELSE IF c = col("pp_vacant_plus_2ans", fy) THEN v2
                    ELSE DefaultText(c)]]

DeptKeys == << [DEP |-> "75", LIB_DEP |-> "Paris"],
               [DEP |-> "2A", LIB_DEP |-> "Corse-du-Sud"] >>
CommuneKeys ==
    << [CODGEO_25 |-> "75056", LIBGEO_25 |-> "Paris", DEP |-> "75", LIB_DEP |-> "Paris",
        REG |-> "11", LIB_REG |-> "Ile-de-France",
        EPCI_25 |-> "200054781", LIB_EPCI_25 |-> "Metropole du Grand Paris"],
       [CODGEO_25 |-> "92012", LIBGEO_25 |-> "Boulogne-Billancourt", DEP |-> "92",
        LIB_DEP |-> "Hauts-de-Seine", REG |-> "11", LIB_REG |-> "Ile-de-France",
        EPCI_25 |-> "200054781", LIB_EPCI_25 |-> "Metropole du Grand Paris"] >>

RawTable(kind, fy, t, v, v2, w) ==
    LET keys == IF kind = "dept" THEN DeptKeys ELSE CommuneKeys
    IN  << RawRow(keys[1], fy, t, v, v2),
           RawRow(keys[2], fy, DefaultText(total_col_of(fy)), w,
                  DefaultText(col("pp_vacant_plus_2ans", fy))) >>

InitPrep ==
    /\ \E kind \in {"dept", "commune"}, fy \in YearSet, t, v, v2, w \in RawVals :
        /\ df_kind = kind
        /\ df_raw = RawTable(kind, fy, t, v, v2, w)
        /\ df = IF kind = "dept" THEN clean_department_rows(df_raw)
                ELSE clean_commune_rows(df_raw)
    /\ out = [op |-> "none"]
    /\ cell = <<>> /\ cell_loader = "none" /\ cell_value = NaN /\ ReadIdle
    /\ AppIdle

PrepareDepartmentTimeseries ==
    /\ df_kind = "dept" /\ out.op = "none"
    /\ out' = [op |-> "timeseries", result |-> prepare_department_timeseries(df)]
    /\ UNCHANGED <<df_kind, df_raw, df, normvars, appvars>>

PrepareNationalAggregates ==
    /\ df_kind = "dept" /\ out.op = "none"
    /\ out' = [op |-> "national", result |-> prepare_national_aggregates(df)]
    /\ UNCHANGED <<df_kind, df_raw, df, normvars, appvars>>

PrepareDepartmentSnapshot ==
    /\ df_kind = "dept" /\ out.op = "none"
    /\ \E year \in YearSet :
        out' = [op |-> "dept_snapshot", year |-> year,
                result |-> prepare_department_snapshot(df, year)]
    /\ UNCHANGED <<df_kind, df_raw, df, normvars, appvars>>

PrepareCommuneSnapshot ==
    /\ df_kind = "commune" /\ out.op = "none"
    /\ \E year \in YearSet :
        out' = [op |-> "commune_snapshot", year |-> year,
                result |-> prepare_commune_snapshot(df, year)]
    /\ UNCHANGED <<df_kind, df_raw, df, normvars, appvars>>

IdentifyDataQualityIssues ==
    /\ df_kind \in {"dept", "commune"} /\ out.op = "none"
    /\ out' = [op |-> "quality", result |-> identify_data_quality_issues(df).report]
    /\ df' = identify_data_quality_issues(df).df
    /\ UNCHANGED <<df_kind, df_raw, normvars, appvars>>

\* pages/6: the validation tab over by_dep_year
ValidationChecks ==
    /\ df_kind = "dept" /\ out.op = "none"
    /\ out' = [op |-> "validation", result |-> validation_checks(build_by_dep_year(df))]
    /\ UNCHANGED <<df_kind, df_raw, df, normvars, appvars>>

\* pages/5: the commune table of the selected year and its "Total Vacant" metric
\* (nothing is shown when no commune is left: st.stop())
CommunePage ==
    /\ df_kind = "commune" /\ out.op = "none"
    /\ \E year \in YearSet, min_total \in {0, 50} :
        LET data == commune_data(melt(df), year_full(year), min_total)
        IN  out' = [op |-> "commune_page", year |-> year, min_total |-> min_total,
                    com_long |-> melt(df),
                    result |-> data,
                    stopped |-> data = {},
                    total_vacant |-> sum_values({[keys |-> r.keys, value |-> r.vacant] :
                                                    r \in data})]
    /\ UNCHANGED <<df_kind, df_raw, df, normvars, appvars>>

\* pages/1: the model built from the table and the latest-year records shown
HomePage ==
    /\ df_kind = "dept" /\ out.op = "none"
    /\ LET model == build_model(df)
       IN  out' = [op |-> "home", model |-> model, latest_data |-> latest_data(model)]
    /\ UNCHANGED <<df_kind, df_raw, df, normvars, appvars>>

\* pages/2: the national trend over the chosen year range
NationalTrends ==
    /\ df_kind = "dept" /\ out.op = "none"
    /\ \E lo \in {2020, 2023} :
        out' = [op |-> "national_trend", lo |-> lo,
                result |-> national_trend(build_model(df).by_dep_year, lo, 2025)]
    /\ UNCHANGED <<df_kind, df_raw, df, normvars, appvars>>

NextPrep ==
    \/ HomePage
    \/ NationalTrends
    \/ PrepareDepartmentTimeseries
    \/ PrepareNationalAggregates
    \/ PrepareDepartmentSnapshot
    \/ PrepareCommuneSnapshot
    \/ IdentifyDataQualityIssues
    \/ ValidationChecks
    \/ CommunePage

SpecPrep == InitPrep /\ [][NextPrep]_vars

-----------------------------------------------------------------------------
(* Spec: app.py, from the files on disk to the tables and the quality      *)
(* report that main() receives from load_all_data                          *)

\* what the try block of a loader meets: a missing path (FileNotFoundError), a
\* file pd.read_csv rejects (EmptyDataError, ParserError), a table without a key
\* column the cleaning indexes (KeyError); the except clause shows the error and
\* returns an empty DataFrame
department_try_fails(file) ==
    \/ ~file.exists
    \/ ~file.readable
    \/ \E i \in 1..Len(file.rows) : ~({"DEP", "LIB_DEP"} \subseteq DOMAIN file.rows[i].keys)

load_department_data_partial(file) ==
    IF ~file.exists \/ ~file.readable
    THEN [df |-> <<>>, errors |-> <<"Error loading department data">>]
    ELSE [df |-> clean_department_rows(file.rows), errors |-> <<>>]
load_department_data(file) ==
    IF department_try_fails(file)
    THEN [df |-> <<>>, errors |-> <<"Error loading department data">>]
    ELSE [df |-> clean_department_rows(file.rows), errors |-> <<>>]

commune_try_fails(file) ==
    \/ ~file.exists
    \/ ~file.readable
    \/ \E i \in 1..Len(file.rows) : ~({"DEP", "CODGEO_25"} \subseteq DOMAIN file.rows[i].keys)

load_commune_data(file) ==
    IF commune_try_fails(file)
    THEN [df |-> <<>>, errors |-> <<"Error loading commune data">>]
    ELSE [df |-> clean_commune_rows(file.rows), errors |-> <<>>]

Absent == [exists |-> FALSE, readable |-> FALSE, rows |-> <<>>]
Unreadable == [exists |-> TRUE, readable |-> FALSE, rows |-> <<>>]
CsvFile(rows) == [exists |-> TRUE, readable |-> TRUE, rows |-> rows]

\* files of two rows: the second repeats the first or is another geography
FileRows(keys, v) ==
    LET first == RawRow(keys[1], "25", DefaultText(col("pp_total", "24")), v,
                        DefaultText(col("pp_vacant_plus_2ans", "25")))
        other == RawRow(keys[2], "25", DefaultText(col("pp_total", "24")),
                        DefaultText(col("pp_vacant", "25")),
                        DefaultText(col("pp_vacant_plus_2ans", "25")))
    IN  {<<first, first>>, <<first, other>>}

DeptFiles ==
    {Absent, Unreadable,
     CsvFile(<< [keys |-> [DEP |-> "75"], cells |-> RawRow(DeptKeys[1], "25", <<"1">>, <<"1">>, <<"1">>).cells] >>)}
    \cup {CsvFile(rows) : rows \in UNION {FileRows(DeptKeys, v) : v \in RawVals}}

CommuneFiles ==
    {Absent, Unreadable,
     CsvFile(<< [keys |-> [LIBGEO_25 |-> "Paris"], cells |-> RawRow(CommuneKeys[1], "25", <<"1">>, <<"1">>, <<"1">>).cells] >>)}
    \cup {CsvFile(rows) : rows \in UNION {FileRows(CommuneKeys, v) : v \in RawVals}}

Init ==
    /\ pc = "start"
    /\ dept_file \in DeptFiles
    /\ commune_file \in CommuneFiles
    /\ df_dept = <<>> /\ df_commune = <<>> /\ quality_report = <<>> /\ st_errors = <<>>
    /\ page_model = <<>>
    /\ cell = <<>> /\ cell_loader = "none" /\ cell_value = NaN /\ ReadIdle
    /\ PrepIdle

\* load_all_data: both loaders, then the quality report of each table
load_all_data ==
    /\ pc = "start"
    /\ LET dept == load_department_data(dept_file)
           commune == load_commune_data(commune_file)
           dept_quality == identify_data_quality_issues(dept.df)
           commune_quality == identify_data_quality_issues(commune.df)
       IN  /\ df_dept' = dept_quality.df
           /\ df_commune' = commune_quality.df
           /\ quality_report' = [department |-> dept_quality.report,
                                 commune |-> commune_quality.report]
           /\ st_errors' = st_errors \o dept.errors \o commune.errors
    /\ pc' = "loaded"
    /\ UNCHANGED <<dept_file, commune_file, page_model, normvars, prepvars>>

\* a call hands back its result and leaves a table behind in the caller's
\* variable: the functions of prep.py read their argument, and the snapshots
\* assign their columns into df_snap, a copy of the kept columns (lines 143, 190)
department_snapshot_call(d, year) ==
    [df_dept |-> d, df_snap |-> prepare_department_snapshot(d, year)]

department_timeseries_call(d) ==
    [df_dept |-> d, df_ts |-> prepare_department_timeseries(d)]

national_aggregates_call(d) ==
    [df_dept |-> d, national_ts |-> prepare_national_aggregates(d)]

commune_snapshot_call_alias(d, year) ==
    LET snap == prepare_commune_snapshot(d, year)
    IN  [df_commune |->
            [i \in 1..Len(d) |->
                [d[i] EXCEPT !.cells = (<<"vacancy_rate">> :> snap[i].vacancy_rate) @@ @]],
         df_snap |-> snap]
commune_snapshot_call(d, year) ==
    [df_commune |-> d, df_snap |-> prepare_commune_snapshot(d, year)]

\* sections/overview.py: df_map is df_dept.copy(); the counts and the rates of
\* the selected year are assigned into the copy
overview_map(d, year_suffix) ==
    LET vr == calculate_vacancy_rate(d, year_suffix)
        lr == calculate_longterm_vacancy_rate(d, year_suffix)
    IN  [df_dept |-> d,
         df_map |-> [i \in 1..Len(d) |->
                        [keys |-> d[i].keys, cells |-> d[i].cells,
                         vacant_count |-> d[i].cells[col("pp_vacant", year_suffix)],
                         longterm_vacant_count |->
                            d[i].cells[col("pp_vacant_plus_2ans", year_suffix)],
                         vacancy_rate |-> vr[i],
                         longterm_vacancy_rate |-> lr[i]]]]

\* pages/4: filtered is a copy of the by_dep_year rows of the year range, and
\* latest_dep a copy of the rows of the selected year
department_filter(m, lo, hi, selected_year) ==
    LET filtered == SelectSeq(m.by_dep_year, LAMBDA r : lo <= r.year /\ r.year <= hi)
    IN  [model |-> m,
         filtered |-> filtered,
         latest_dep |-> SelectSeq(filtered, LAMBDA r : r.year = selected_year)]

\* main(), from the page selection to the end of the sidebar: the data status
\* reads df_commune['pp_vacant_25'] and the quick stats read
\* df_dept['pp_vacant_25'] and df_dept['pp_total_24'], which an empty DataFrame
\* (no column at all) answers with KeyError
Pages == {"intro", "overview", "departmental", "commune", "conclusions"}

sidebar_no_stats(dept, commune) ==
    [raised |-> FALSE, departments |-> Len(dept)]
sidebar(dept, commune) ==
    IF commune = <<>> \/ dept = <<>>
    THEN [raised |-> TRUE, departments |-> 0]
    ELSE [raised |-> FALSE, departments |-> Len(dept)]

\* an exception of main() reaches the handler under __main__, which shows it
Sidebar ==
    /\ pc = "loaded"
    /\ \E page \in Pages :
        LET side == sidebar(df_dept, df_commune)
        IN  IF side.raised
            THEN /\ pc' = "error"
                 /\ st_errors' = Append(st_errors, "An error occurred")
                 /\ out' = [op |-> "sidebar", page |-> page, raised |-> TRUE]
            ELSE /\ pc' = "routing"
                 /\ st_errors' = st_errors
                 /\ out' = [op |-> "sidebar", page |-> page, raised |-> FALSE]
    /\ UNCHANGED <<dept_file, commune_file, df_dept, df_commune, quality_report,
                   page_model, normvars, df_kind, df_raw, df>>

\* the page routing of main(): the show() of the section selected
IntroSection ==
    /\ pc = "routing" /\ out.page = "intro"
    /\ out' = [op |-> "intro"]
    /\ pc' = "rendered"
    /\ UNCHANGED <<dept_file, commune_file, df_dept, df_commune, quality_report, st_errors,
                   page_model, normvars, df_kind, df_raw, df>>

OverviewSection ==
    /\ pc = "routing" /\ out.page = "overview"
    /\ \E year_suffix \in YearSet :
        LET national == national_aggregates_call(df_dept)
            map == overview_map(national.df_dept, year_suffix)
        IN  /\ out' = [op |-> "overview", year |-> year_suffix,
                       national_ts |-> national.national_ts, df_map |-> map.df_map]
            /\ df_dept' = map.df_dept
    /\ pc' = "rendered"
    /\ UNCHANGED <<dept_file, commune_file, df_commune, quality_report, st_errors,
                   page_model, normvars, df_kind, df_raw, df>>

DepartmentalSection ==
    /\ pc = "routing" /\ out.page = "departmental"
    /\ \E selected_year \in YearSet :
        LET snap == department_snapshot_call(df_dept, selected_year)
            ts == department_timeseries_call(snap.df_dept)
        IN  /\ out' = [op |-> "departmental", year |-> selected_year,
                       df_snap |-> snap.df_snap, df_ts |-> ts.df_ts]
            /\ df_dept' = ts.df_dept
    /\ pc' = "rendered"
    /\ UNCHANGED <<dept_file, commune_file, df_commune, quality_report, st_errors,
                   page_model, normvars, df_kind, df_raw, df>>

CommuneSection ==
    /\ pc = "routing" /\ out.page = "commune"
    /\ LET snap == commune_snapshot_call(df_commune, "25")
       IN  /\ out' = [op |-> "commune", df_snap |-> snap.df_snap]
           /\ df_commune' = snap.df_commune
    /\ pc' = "rendered"
    /\ UNCHANGED <<dept_file, commune_file, df_dept, quality_report, st_errors,
                   page_model, normvars, df_kind, df_raw, df>>

ConclusionsSection ==
    /\ pc = "routing" /\ out.page = "conclusions"
    /\ LET national == national_aggregates_call(df_dept)
       IN  /\ out' = [op |-> "conclusions", national_ts |-> national.national_ts]
           /\ df_dept' = national.df_dept
    /\ pc' = "rendered"
    /\ UNCHANGED <<dept_file, commune_file, df_commune, quality_report, st_errors,
                   page_model, normvars, df_kind, df_raw, df>>

\* the pages, opened once the dashboard has rendered: get_data() builds the model
\* once from the loaded tables (it is cached), and every page filters it
get_data ==
    /\ pc = "rendered" /\ df_dept # <<>> /\ page_model = <<>>
    /\ page_model' = build_model(df_dept)
    /\ UNCHANGED <<pc, dept_file, commune_file, df_dept, df_commune, quality_report,
                   st_errors, normvars, prepvars>>

DepartmentAnalysisPage ==
    /\ pc = "rendered" /\ page_model # <<>>
    /\ \E lo \in {2020, 2023} :
        LET page == department_filter(page_model, lo, 2025, 2025)
        IN  /\ out' = [op |-> "department_analysis", lo |-> lo,
                       filtered |-> page.filtered, latest_dep |-> page.latest_dep]
            /\ page_model' = page.model
    /\ UNCHANGED <<pc, dept_file, commune_file, df_dept, df_commune, quality_report,
                   st_errors, normvars, df_kind, df_raw, df>>

\* an interaction reruns main(): load_all_data is cached and hands back the
\* tables and the report of the first run, the screen starts empty (a run that
\* ended in the error handler is not rerun)
Rerun ==
    /\ pc = "rendered"
    /\ pc' = "loaded"
    /\ out' = [op |-> "none"]
    /\ UNCHANGED <<dept_file, commune_file, df_dept, df_commune, quality_report, st_errors,
                   page_model, normvars, df_kind, df_raw, df>>

Next ==
    \/ load_all_data
    \/ Sidebar
    \/ IntroSection
    \/ Rerun
    \/ OverviewSection
    \/ DepartmentalSection
    \/ CommuneSection
    \/ ConclusionsSection
    \/ get_data
    \/ DepartmentAnalysisPage

Spec == Init /\ [][Next]_vars

-----------------------------------------------------------------------------
(* SpecRead: what a loader makes of one header field of its file: the      *)
(* bytes are decoded by pd.read_csv under the encoding the loader passes,  *)
(* and the column name is cleaned                                          *)

\* the bytes considered: space, A, 0x81, 0xA0, 0xA9, 0xC3
Bytes == {32, 65, 129, 160, 169, 195}
HeaderFields == UNION {[1..n -> Bytes] : n \in 1..MaxLen}

\* the character of code point p
chr(p) ==
    CASE p = 32 -> " " [] p = 65 -> "A" [] p = 129 -> "U+0081" [] p = 160 -> NBSP
      [] p = 169 -> "U+00A9" [] p = 195 -> "U+00C3" [] p = 193 -> "U+00C1"
      [] p = 224 -> "U+00E0" [] p = 233 -> "U+00E9"

UnicodeDecodeError == [ok |-> FALSE, text |-> <<>>]

\* latin-1: every byte is the character of the same code point
decode_latin_1(bytes) == [ok |-> TRUE, text |-> [i \in 1..Len(bytes) |-> chr(bytes[i])]]

\* cp1252: as latin-1 on the bytes considered, except that 0x81 is undefined
decode_cp1252(bytes) ==
    IF \E i \in 1..Len(bytes) : bytes[i] = 129 THEN UnicodeDecodeError
    ELSE decode_latin_1(bytes)

\* utf-8: a byte below 0x80 is itself, 0xC3 with a continuation byte b is the
\* character 0xC0 + (b - 0x80), anything else is invalid
RECURSIVE decode_utf_8(_)
decode_utf_8(bytes) ==
    IF bytes = <<>> THEN [ok |-> TRUE, text |-> <<>>]
    ELSE IF bytes[1] < 128
    THEN LET rest == decode_utf_8(Tail(bytes))
         IN  IF rest.ok THEN [ok |-> TRUE, text |-> <<chr(bytes[1])>> \o rest.text]
             ELSE UnicodeDecodeError
    ELSE IF bytes[1] = 195 /\ Len(bytes) >= 2 /\ bytes[2] \in 128..191
    THEN LET rest == decode_utf_8(SubSeq(bytes, 3, Len(bytes)))
         IN  IF rest.ok THEN [ok |-> TRUE, text |-> <<chr(192 + bytes[2] - 128)>> \o rest.text]
             ELSE UnicodeDecodeError
    ELSE UnicodeDecodeError

decode(bytes, encoding) ==
    CASE encoding = "latin-1" -> decode_latin_1(bytes)
      [] encoding = "cp1252" -> decode_cp1252(bytes)
      [] encoding = "utf-8" -> decode_utf_8(bytes)

\* the encodings a loader hands to pd.read_csv, in the order it tries them
encodings == <<"latin-1">>

\* the try block of a loader on the header: pd.read_csv under latin-1, then
\* df.columns.str.strip(); any exception ends in the except clause
load_columns_utf_8(bytes) ==
    LET read == decode(bytes, "utf-8")
    IN  IF read.ok
        THEN [status |-> "ok", tried |-> <<"utf-8">>, name |-> str_strip(read.text)]
        ELSE [status |-> "error", tried |-> <<"utf-8">>, name |-> <<>>]
load_columns(bytes) ==
    LET read == decode(bytes, "latin-1")
    IN  IF read.ok
        THEN [status |-> "ok", tried |-> <<"latin-1">>, name |-> str_strip(read.text)]
        ELSE [status |-> "error", tried |-> <<"latin-1">>, name |-> <<>>]

InitRead ==
    /\ header_bytes \in HeaderFields
    /\ df_columns = [loader |-> "none"]
    /\ cell = <<>> /\ cell_loader = "none" /\ cell_value = NaN
    /\ PrepIdle /\ AppIdle

ReadDepartmentColumns ==
    /\ df_columns.loader = "none"
    /\ df_columns' = [loader |-> "department", columns |-> load_columns(header_bytes)]
    /\ UNCHANGED <<header_bytes, cell, cell_loader, cell_value, prepvars, appvars>>

ReadCommuneColumns ==
    /\ df_columns.loader = "none"
    /\ df_columns' = [loader |-> "commune", columns |-> load_columns(header_bytes)]
    /\ UNCHANGED <<header_bytes, cell, cell_loader, cell_value, prepvars, appvars>>

NextRead ==
    \/ ReadDepartmentColumns
    \/ ReadCommuneColumns

SpecRead == InitRead /\ [][NextRead]_vars

-----------------------------------------------------------------------------
(* SpecView: one run of a page or of a section view over a loaded table    *)

(* utils.io.ensure_departements_geojson and utils.viz.map_departements are *)
(* not among the source files: the fetch of the map boundaries tolerates   *)
(* its failure (the specification's external collaborator interfaces), and *)
(* the map needs the boundaries                                            *)
ensure_departements_geojson(fetch_ok) == [raised |-> FALSE, geojson |-> fetch_ok]

map_departements(data, metric, geojson) == IF geojson /\ Len(data) > 0 THEN "fig" ELSE "None"

\* pages/4: map_data = latest_dep[[dep_code, dep_name, metric, year]].dropna()
map_data(latest_dep, metric) == SelectSeq(latest_dep, LAMBDA r : notna(r[metric]))

\* pages/4, "Interactive Department Map": the map, the bar chart shown in its
\* place when map_departements gives None, or the notice that no row is left
department_map_no_fallback(latest_dep, metric, geojson) ==
    LET data == map_data(latest_dep, metric)
    IN  IF Len(data) > 0
        THEN IF map_departements(data, metric, geojson) = "None"
             THEN [shown |-> "raised", warning |-> FALSE, data |-> data]
             ELSE [shown |-> "map", warning |-> FALSE, data |-> data]
        ELSE [shown |-> "info", warning |-> FALSE, data |-> data]
department_map(latest_dep, metric, geojson) ==
    LET data == map_data(latest_dep, metric)
    IN  IF Len(data) > 0
        THEN IF map_departements(data, metric, geojson) = "None"
             THEN [shown |-> "bar_chart", warning |-> TRUE, data |-> data]
             ELSE [shown |-> "map", warning |-> FALSE, data |-> data]
        ELSE [shown |-> "info", warning |-> FALSE, data |-> data]

\* DataFrame.dropna(subset=[metric])
dropna(rows, metric) == SelectSeq(rows, LAMBDA r : notna(r[metric]))

RemoveAt(s, i) == SubSeq(s, 1, i - 1) \o SubSeq(s, i + 1, Len(s))

\* DataFrame.nlargest(n, metric) / nsmallest(n, metric) of rows without a missing
\* metric: the n first rows in descending (ascending) order of the metric, rows
\* of equal metric in their order of appearance (keep='first')
RECURSIVE nlargest(_, _, _)
nlargest(n, rows, metric) ==
    IF n <= 0 \/ rows = <<>> THEN <<>>
    ELSE LET best == CHOOSE i \in 1..Len(rows) :
                        /\ \A j \in 1..Len(rows) : ~Gt(rows[j][metric], rows[i][metric])
                        /\ \A j \in 1..(i - 1) : Gt(rows[j][metric], rows[i][metric])
                                                 \/ Gt(rows[i][metric], rows[j][metric])
         IN  <<rows[best]>> \o nlargest(n - 1, RemoveAt(rows, best), metric)

RECURSIVE nsmallest(_, _, _)
nsmallest(n, rows, metric) ==
    IF n <= 0 \/ rows = <<>> THEN <<>>
    ELSE LET best == CHOOSE i \in 1..Len(rows) :
                        /\ \A j \in 1..Len(rows) : ~Lt(rows[j][metric], rows[i][metric])
                        /\ \A j \in 1..(i - 1) : Gt(rows[j][metric], rows[i][metric])
                                                 \/ Gt(rows[i][metric], rows[j][metric])
         IN  <<rows[best]>> \o nsmallest(n - 1, RemoveAt(rows, best), metric)

get_top_departments_desc(df_snap, metric, n, ascending) ==
    nlargest(n, dropna(df_snap, metric), metric)
get_top_departments(df_snap, metric, n, ascending) ==
    IF ~ascending THEN nlargest(n, dropna(df_snap, metric), metric)
    ELSE nsmallest(n, dropna(df_snap, metric), metric)

classify_vacancy_level(rate) ==
    IF isna(rate) THEN "Unknown"
    ELSE IF Lt(rate, Num(5)) THEN "Very Low (<5%)"
    ELSE IF Lt(rate, Num(7)) THEN "Low (5-7%)"
    ELSE IF Lt(rate, Num(9)) THEN "Moderate (7-9%)"
    ELSE IF Lt(rate, Num(12)) THEN "High (9-12%)"
    ELSE "Very High (>12%)"

\* the rates classified: missing, infinite, and the hundredths around the
\* thresholds with the halves from 0 to 15
Rates ==
    {NaN, PosInf, NegInf}
    \cup {Frac(k, 2) : k \in 0..30}
    \cup {Frac(100 * t + e, 100) : t \in {5, 7, 9, 12}, e \in {-1, 1}}

\* Series.mean() and Series.median() of a non-empty list of finite rates
mean(rates) == Div(SumSeq(rates), Num(Len(rates)))
median(rates) ==
    LET n == Len(rates)
        sorted == nsmallest(n, [i \in 1..n |-> [rate |-> rates[i]]], "rate")
    IN  IF n % 2 = 1 THEN sorted[(n + 1) \div 2].rate
        ELSE mean(<<sorted[n \div 2].rate, sorted[(n \div 2) + 1].rate>>)

\* sections/departmental.py, show() down to the statistics: the snapshot of the
\* departments selected (all when none is), without the rows whose rate is
\* missing; with no row left the error is shown and show() returns
departmental_view(d, selected_year, selected_depts) ==
    LET df_snap == prepare_department_snapshot(d, selected_year).rows
        df_snap_filtered == IF selected_depts # {}
                            THEN SelectSeq(df_snap, LAMBDA r : r.LIB_DEP \in selected_depts)
                            ELSE df_snap
        valid == dropna(df_snap_filtered, "vacancy_rate")
        rates == [i \in 1..Len(valid) |-> valid[i].vacancy_rate]
    IN  IF Len(valid) = 0
        THEN [raised |-> FALSE, shown |-> "no valid data", valid |-> valid]
        ELSE [raised |-> FALSE, shown |-> "statistics", valid |-> valid,
              avg_rate |-> mean(rates)]

\* sections/commune.py, show(): the snapshot of 2025 under the region and the
\* department selected, without the rows whose rate is missing or infinite; the
\* average and the median have the placeholder N/A when no row is left, and
\* median_rate is assigned only when one is: the key insights at the end of
\* show() read median_rate
commune_view(d, selected_region, selected_dept) ==
    LET df_snap == prepare_commune_snapshot(d, "25")
        by_region == IF selected_region # "All Regions"
                     THEN SelectSeq(df_snap, LAMBDA r : r.keys.LIB_REG = selected_region)
                     ELSE df_snap
        by_dept == IF selected_dept # "All Departments"
                   THEN SelectSeq(by_region, LAMBDA r : r.keys.LIB_DEP = selected_dept)
                   ELSE by_region
        df_filtered == SelectSeq(by_dept, LAMBDA r : isfinite(r.vacancy_rate))
        valid_rates == [i \in 1..Len(df_filtered) |-> df_filtered[i].vacancy_rate]
        avg_rate == IF Len(valid_rates) > 0 THEN mean(valid_rates) ELSE NaN
        median_rate == IF Len(valid_rates) > 0 THEN [bound |-> TRUE, v |-> median(valid_rates)]
                       ELSE [bound |-> FALSE, v |-> NaN]
    IN  [df_filtered |-> df_filtered,
         communes |-> Len(df_filtered),
         avg_rate_str |-> IF Len(valid_rates) > 0 THEN "value" ELSE "N/A",
         avg_rate |-> avg_rate,
         median_str |-> IF Len(valid_rates) > 0 THEN "value" ELSE "N/A",
         median_rate |-> median_rate.v,
         raised |-> IF median_rate.bound THEN "none" ELSE "UnboundLocalError"]

ViewTables ==
    {[kind |-> kind, raw |-> RawTable(kind, "25", t, v, v2, w)] :
        kind \in {"dept", "commune"}, t \in {<<"0">>, <<"2">>}, v \in RawVals,
        v2 \in {<<"s">>, <<"1">>}, w \in RawVals}

InitView ==
    /\ \E table \in ViewTables :
        /\ df_kind = table.kind
        /\ df_raw = table.raw
        /\ df = IF table.kind = "dept" THEN clean_department_rows(df_raw)
                ELSE clean_commune_rows(df_raw)
    /\ out = [op |-> "none"]
    /\ pc = "view"
    /\ dept_file = <<>> /\ commune_file = <<>> /\ df_dept = <<>> /\ df_commune = <<>>
    /\ quality_report = <<>> /\ st_errors = <<>> /\ page_model = <<>>
    /\ cell = <<>> /\ cell_loader = "none" /\ cell_value = NaN /\ ReadIdle

\* pages/4, top of the script: the boundaries are fetched before the model is read
EnsureDepartementsGeojson ==
    /\ pc = "view" /\ df_kind = "dept"
    /\ \E fetch_ok \in BOOLEAN :
        LET fetch == ensure_departements_geojson(fetch_ok)
        IN  /\ out' = [op |-> "ensure_geojson", fetch_ok |-> fetch_ok,
                       geojson |-> fetch.geojson]
            /\ pc' = IF fetch.raised THEN "raised" ELSE "page4"
    /\ UNCHANGED <<dept_file, commune_file, df_dept, df_commune, quality_report, st_errors,
                   page_model, normvars, df_kind, df_raw, df>>

\* pages/4, the rest of the script: the model, the filters, the map section
DepartmentPage ==
    /\ pc = "page4"
    /\ \E lo \in {2020, 2025}, selected_year \in {2024, 2025},
          metric \in {"vacancy_rate", "vacant"} :
        LET m == build_model(df)
            page == department_filter(m, lo, 2025, selected_year)
            shown == department_map(page.latest_dep, metric, out.geojson)
        IN  /\ out' = [op |-> "department_page", fetch_ok |-> out.fetch_ok,
                       lo |-> lo, selected_year |-> selected_year, metric |-> metric,
                       latest_dep |-> page.latest_dep, map |-> shown]
            /\ page_model' = page.model
            /\ pc' = IF shown.shown = "raised" THEN "raised" ELSE "rendered"
    /\ UNCHANGED <<dept_file, commune_file, df_dept, df_commune, quality_report, st_errors,
                   normvars, df_kind, df_raw, df>>

\* sections/departmental.py, the rankings: the top and the bottom of a metric
\* of the snapshot
TopDepartments ==
    /\ pc = "view" /\ df_kind = "dept"
    /\ \E metric \in {"vacancy_rate", "vacant_properties"}, n \in {1, 2, 20},
          ascending \in BOOLEAN :
        LET df_snap == prepare_department_snapshot(df, "25").rows
        IN  out' = [op |-> "top", df_snap |-> df_snap, metric |-> metric, n |-> n,
                    ascending |-> ascending,
                    result |-> get_top_departments(df_snap, metric, n, ascending)]
    /\ pc' = "done"
    /\ UNCHANGED <<dept_file, commune_file, df_dept, df_commune, quality_report, st_errors,
                   page_model, normvars, df_kind, df_raw, df>>

\* sections/commune.py: df_filtered['vacancy_rate'].apply(classify_vacancy_level),
\* one rate at a time
ClassifyVacancyLevel ==
    /\ pc = "view" /\ df_kind = "commune"
    /\ \E rate \in Rates :
        out' = [op |-> "classify", rate |-> rate, label |-> classify_vacancy_level(rate)]
    /\ pc' = "done"
    /\ UNCHANGED <<dept_file, commune_file, df_dept, df_commune, quality_report, st_errors,
                   page_model, normvars, df_kind, df_raw, df>>

DepartmentalView ==
    /\ pc = "view" /\ df_kind = "dept"
    /\ \E selected_depts \in {{}, {"Paris"}, {"Corse-du-Sud"}} :
        LET view == departmental_view(df, "25", selected_depts)
        IN  /\ out' = [op |-> "departmental_view", selected_depts |-> selected_depts,
                       view |-> view]
            /\ pc' = IF view.raised THEN "view_raised" ELSE "viewed"
    /\ UNCHANGED <<dept_file, commune_file, df_dept, df_commune, quality_report, st_errors,
                   page_model, normvars, df_kind, df_raw, df>>

CommuneView ==
    /\ pc = "view" /\ df_kind = "commune"
    /\ \E selected_region \in {"All Regions", "Ile-de-France"},
          selected_dept \in {"All Departments", "Paris", "Hauts-de-Seine"} :
        LET view == commune_view(df, selected_region, selected_dept)
        IN  /\ out' = [op |-> "commune_view", selected_region |-> selected_region,
                       selected_dept |-> selected_dept, view |-> view]
            /\ pc' = IF view.raised # "none" THEN "view_raised" ELSE "viewed"
    /\ UNCHANGED <<dept_file, commune_file, df_dept, df_commune, quality_report, st_errors,
                   page_model, normvars, df_kind, df_raw, df>>

NextView ==
    \/ DepartmentalView
    \/ CommuneView
    \/ EnsureDepartementsGeojson
    \/ DepartmentPage
    \/ TopDepartments
    \/ ClassifyVacancyLevel

SpecView == InitView /\ [][NextView]_vars

-----------------------------------------------------------------------------
(* properties *)

\* the sum of the integer counts f[i], i in S
RECURSIVE IntSumOver(_, _)
IntSumOver(f, S) ==
    IF S = {} THEN 0
    ELSE LET i == CHOOSE i \in S : TRUE IN f[i].n + IntSumOver(f, S \ {i})

\* the exact percentage num/den*100 of two counts, den # 0
ExactRate(num, den) == Frac(num.n * den.d * 100, num.d * den.n)

\* |a - b| <= 1/tol for two numbers
Within(a, b, tol) ==
    /\ isfinite(a) /\ isfinite(b)
    /\ LET diff == Minus(a, b)
       IN  diff.n = 0 \/ tol <= diff.d \div Abs(diff.n)

NoTotal(x) == isna(x) \/ x = Num(0)

\* the file row of timeseries record k, and its year suffix
RowOf(k) == ((k - 1) \div Len(years)) + 1
YearOf(k) == years[((k - 1) % Len(years)) + 1]

\* C1 (as claimed): in every derived record, whichever operation derives it, both
\* vacancy rates are null whenever the record's total is null or 0: never
\* infinite and never a number.
C1_RatesNullWithoutTotal ==
    /\ out.op = "timeseries" =>
        \A k \in 1..Len(out.result) :
            NoTotal(out.result[k].total_properties)
                => isna(out.result[k].vacancy_rate)
                   /\ isna(out.result[k].longterm_vacancy_rate)
    /\ out.op = "dept_snapshot" =>
        \A i \in 1..Len(out.result.rows) :
            NoTotal(out.result.rows[i].total_properties)
                => isna(out.result.rows[i].vacancy_rate)
                   /\ isna(out.result.rows[i].longterm_vacancy_rate)
    /\ out.op = "commune_snapshot" =>
        \A i \in 1..Len(out.result) :
            NoTotal(out.result[i].total_properties)
                => isna(out.result[i].vacancy_rate)
                   /\ isna(out.result[i].longterm_vacancy_rate)
    /\ out.op = "commune_page" =>
        \A r \in out.result :
            NoTotal(r.total) => isna(r.vacancy_rate) /\ isna(r.vacancy_2y_rate)

\* C3 (as claimed): every operation that derives a rate for year suffix 25 divides
\* by the row's pp_total_24, so the 2025 rate is a number whenever pp_total_24 > 0
\* and pp_vacant_25 is a number.
C3_Rate25UsesTotal24 ==
    /\ out.op = "timeseries" =>
        \A k \in 1..Len(out.result) :
            LET total_24 == df[RowOf(k)].cells[col("pp_total", "24")]
                vacant_25 == df[RowOf(k)].cells[col("pp_vacant", "25")]
            IN  (YearOf(k) = "25" /\ Gt(total_24, Num(0)) /\ notna(vacant_25))
                    => /\ isfinite(out.result[k].vacancy_rate)
                       /\ Within(out.result[k].vacancy_rate,
                                 ExactRate(vacant_25, total_24), 200)
    /\ (out.op = "dept_snapshot" /\ out.year = "25") =>
        \A i \in 1..Len(out.result.rows) :
            LET total_24 == df[i].cells[col("pp_total", "24")]
                vacant_25 == df[i].cells[col("pp_vacant", "25")]
            IN  (Gt(total_24, Num(0)) /\ notna(vacant_25))
                    => /\ isfinite(out.result.rows[i].vacancy_rate)
                       /\ Within(out.result.rows[i].vacancy_rate,
                                 ExactRate(vacant_25, total_24), 200)
    /\ (out.op = "commune_snapshot" /\ out.year = "25") =>
        \A i \in 1..Len(out.result) :
            LET total_24 == df[i].cells[col("pp_total", "24")]
                vacant_25 == df[i].cells[col("pp_vacant", "25")]
            IN  (Gt(total_24, Num(0)) /\ notna(vacant_25))
                    => /\ isfinite(out.result[i].vacancy_rate)
                       /\ Within(out.result[i].vacancy_rate,
                                 ExactRate(vacant_25, total_24), 200)

\* every rate stored in a record with a positive total and a numeric numerator
\* is within 1/tol of numerator/total*100
RatesWithin(tol) ==
    /\ out.op = "timeseries" =>
        \A k \in 1..Len(out.result) :
            LET r == out.result[k]
            IN  /\ (Gt(r.total_properties, Num(0)) /\ notna(r.vacant_properties))
                    => Within(r.vacancy_rate,
                              ExactRate(r.vacant_properties, r.total_properties), tol)
                /\ (Gt(r.total_properties, Num(0)) /\ notna(r.vacant_2plus_years))
                    => Within(r.longterm_vacancy_rate,
                              ExactRate(r.vacant_2plus_years, r.total_properties), tol)
    /\ out.op = "national" =>
        \A k \in 1..Len(out.result) :
            LET r == out.result[k]
            IN  Gt(r.total_properties, Num(0))
                    => /\ Within(r.vacancy_rate,
                                 ExactRate(r.vacant_properties, r.total_properties), tol)
                       /\ Within(r.longterm_vacancy_rate,
                                 ExactRate(r.vacant_2plus_years, r.total_properties), tol)
    /\ out.op \in {"dept_snapshot", "commune_snapshot"} =>
        LET rows == IF out.op = "dept_snapshot" THEN out.result.rows ELSE out.result
        IN  \A i \in 1..Len(rows) :
                LET r == rows[i]
                IN  /\ (Gt(r.total_properties, Num(0)) /\ notna(r.vacant_properties))
                        => Within(r.vacancy_rate,
                                  ExactRate(r.vacant_properties, r.total_properties), tol)
                    /\ (Gt(r.total_properties, Num(0)) /\ notna(r.vacant_2plus_years))
                        => Within(r.longterm_vacancy_rate,
                                  ExactRate(r.vacant_2plus_years, r.total_properties), tol)
    /\ out.op = "commune_page" =>
        \A r \in out.result :
            Gt(r.total, Num(0))
                => /\ Within(r.vacancy_rate, ExactRate(r.vacant, r.total), tol)
                   /\ Within(r.vacancy_2y_rate, ExactRate(r.vacant_2y, r.total), tol)

SuppressedCells ==
    {ic \in (1..Len(df_raw)) \X MetricColumns : df_raw[ic[1]].cells[ic[2]] = <<"s">>}

C7_ViolationCountedNotSanitized ==
    /\ out.op = "validation" =>
        LET t == build_by_dep_year(df)
        IN  /\ out.result.invalid_vacant
                = Cardinality({k \in 1..Len(t) :
                                 /\ isfinite(t[k].vacant) /\ isfinite(t[k].total)
                                 /\ t[k].vacant.n * t[k].total.d > t[k].total.n * t[k].vacant.d})
            /\ out.result.by_dep_year = t
            /\ \A k \in 1..Len(t) :
                (Gt(t[k].vacant, t[k].total) /\ Gt(t[k].total, Num(0)))
                    => /\ t[k].vacant = df[RowOf(k)].cells[col("pp_vacant", YearOf(k))]
                       /\ t[k].total = df[RowOf(k)].cells[col("pp_total", YearOf(k))]
    /\ out.op = "dept_snapshot" =>
        \A i \in 1..Len(out.result.rows) :
            LET r == out.result.rows[i]
            IN  (Gt(r.vacant_properties, r.total_properties) /\ Gt(r.total_properties, Num(0)))
                    => /\ r.vacancy_rate
                            = round2(ExactRate(r.vacant_properties, r.total_properties))
                       /\ ~Lt(r.vacancy_rate, Num(100))
                       /\ r.vacant_properties = df[i].cells[col("pp_vacant", out.year)]

C7_Witness ==
    /\ out.op = "validation"
    /\ out.result.invalid_vacant >= 1
    /\ \E k \in 1..Len(out.result.by_dep_year) :
        LET r == out.result.by_dep_year[k]
        IN  r.vacant = Num(2) /\ r.total = Num(1) /\ r.vacancy_rate = Num(200)

C8_ReportLeavesTablesUnchanged ==
    pc = "loaded" =>
        /\ df_dept = load_department_data(dept_file).df
        /\ df_commune = load_commune_data(commune_file).df
        /\ quality_report.department.total_rows = Len(df_dept)
        /\ quality_report.commune.total_rows = Len(df_commune)
        /\ DOMAIN quality_report.department.missing_by_column = all_columns(df_dept)
        /\ DOMAIN quality_report.commune.missing_by_column = all_columns(df_commune)

C8_Witness ==
    /\ pc = "loaded" /\ Len(df_dept) = 2
    /\ quality_report.department.duplicates = 1
    /\ quality_report.department.missing_by_column[col("pp_vacant", "25")] = 2
    /\ isna(df_dept[1].cells[col("pp_vacant", "25")])

C12_NormalizationIdempotent ==
    /\ cell_loader \in {"department,department", "department,commune"}
        => cell_value = clean_department_value(cell)
    /\ cell_loader \in {"commune,department", "commune,commune"}
        => cell_value = clean_commune_value(cell)

C12_Witness ==
    /\ cell_loader = "department,department" /\ cell = <<"1", ".", "1">>
    /\ cell_value = Frac(11, 10)

\* the cell of a row for a metric and a year, NaN when the table has no such column
CellOf(row, base, y) ==
    IF col(base, y) \in DOMAIN row.cells THEN row.cells[col(base, y)] ELSE NaN

MatchedColumns(d) ==
    IF d = <<>> THEN {}
    ELSE {c \in DOMAIN d[1].cells :
            c[1] \in {"pp_total", "pp_vacant", "pp_vacant_plus_2ans"} /\ c[2] \in YearSet}

\* the two-digit number a year suffix reads as
YY(y) ==
    CASE y = "20" -> 20 [] y = "21" -> 21 [] y = "22" -> 22
      [] y = "23" -> 23 [] y = "24" -> 24 [] y = "25" -> 25

\* the long table held by the state, if any
LongTable ==
    IF out.op = "home" THEN out.model.df_dep_long
    ELSE IF out.op = "commune_page" THEN out.com_long ELSE {}

MeanOfRates(rates) ==
    LET S == {i \in 1..Len(rates) : isfinite(rates[i])}
    IN  IF S = {} THEN NaN
        ELSE Div(SumSeq([i \in 1..Len(rates) |-> IF i \in S THEN rates[i] ELSE NaN]),
                 Num(Cardinality(S)))

C19_LatestYearSnapshot ==
    out.op = "home" =>
        LET m == out.model
            ys == m.years_available
            present == {o.year : o \in m.df_dep_long}
            latest == CHOOSE y \in present : \A z \in present : z <= y
            expected == {k \in 1..Len(m.by_dep_year) : m.by_dep_year[k].year = latest}
        IN  /\ {ys[i] : i \in 1..Len(ys)} = present
            /\ \A i \in 1..(Len(ys) - 1) : ys[i] < ys[i + 1]
            /\ Len(out.latest_data) = Cardinality(expected)
            /\ \A k \in expected :
                \E n \in 1..Len(out.latest_data) : out.latest_data[n] = m.by_dep_year[k]
            /\ \A n \in 1..Len(out.latest_data) : out.latest_data[n].year = latest
            /\ m.latest_dep = out.latest_data

C19_Witness ==
    /\ out.op = "home"
    /\ out.model.years_available = <<2020, 2021, 2022, 2023, 2024, 2025>>
    /\ Len(out.latest_data) = 2
    /\ out.latest_data[1].year = 2025 /\ out.latest_data[1].dep_code = "75"
    /\ out.latest_data[2].dep_code = "2A"

\* C17 (as claimed): in an aggregated record a metric whose column is absent is 0
\* and a metric whose cell is present but missing stays null.
C17_AbsentIsZeroMissingStaysNull ==
    (out.op = "commune_page" /\ out.min_total = 0) =>
        \A i \in 1..Len(df) :
            \A r \in out.result :
                r.keys = df[i].keys =>
                    LET agrees(base, v) ==
                            IF col(base, out.year) \notin DOMAIN df[i].cells THEN v = Num(0)
                            ELSE isna(df[i].cells[col(base, out.year)]) => isna(v)
                    IN  /\ agrees("pp_total", r.total)
                        /\ agrees("pp_vacant", r.vacant)
                        /\ agrees("pp_vacant_plus_2ans", r.vacant_2y)

C20_TablesAndModelUnchanged ==
    pc \in {"loaded", "routing", "rendered", "error"} =>
        /\ df_dept = load_department_data(dept_file).df
        /\ df_commune = load_commune_data(commune_file).df
        /\ page_model # <<>> =>
                page_model = build_model(load_department_data(dept_file).df)

C20_Witness ==
    /\ pc = "rendered" /\ page_model # <<>> /\ Len(page_model.by_dep_year) = 12
    /\ out.op = "commune" /\ Len(out.df_snap) = 2
    /\ isfinite(out.df_snap[2].vacancy_rate)
    /\ Len(df_commune) = 2
    /\ DOMAIN df_commune[2].cells = MetricColumns

FirstDecoding(bytes, encs) ==
    LET decoding == {i \in 1..Len(encs) : decode(bytes, encs[i]).ok}
    IN  IF decoding = {}
        THEN [status |-> "DecodeError", tried |-> encs, text |-> <<>>]
        ELSE LET first == CHOOSE i \in decoding : \A j \in decoding : i <= j
             IN  [status |-> "ok", tried |-> SubSeq(encs, 1, first),
                  text |-> decode(bytes, encs[first]).text]

RECURSIVE CollapseSpaces(_)
CollapseSpaces(s) ==
    IF s = <<>> THEN <<>>
    ELSE IF Head(s) # " " THEN <<Head(s)>> \o CollapseSpaces(Tail(s))
    ELSE IF Len(s) >= 2 /\ s[2] = " " THEN CollapseSpaces(Tail(s))
    ELSE <<"_">> \o CollapseSpaces(Tail(s))

\* C23: every column name of a successfully loaded table is trimmed of
\* surrounding whitespace and holds no internal space, each run of internal
\* spaces being replaced by an underscore.
C23_ColumnNamesUnderscored ==
    (df_columns.loader # "none" /\ df_columns.columns.status = "ok") =>
        LET name == df_columns.columns.name
        IN  /\ \A i \in 1..Len(name) : name[i] # " "
            /\ name = CollapseSpaces(str_strip(decode(header_bytes, "latin-1").text))

\* C24: get_top_departments returns at most n rows of the snapshot, none with a
\* missing metric; with ascending=False they are ordered highest first and each
\* is >= every row left out that has a metric, with ascending=True lowest first
\* and <=.
C24_TopDepartmentsRanked ==
    out.op = "top" =>
        LET res == out.result
            m == out.metric
            rows == {out.df_snap[i] : i \in 1..Len(out.df_snap)}
            returned == {res[k] : k \in 1..Len(res)}
            before(a, b) == IF out.ascending THEN ~Gt(a, b) ELSE ~Lt(a, b)
        IN  /\ Len(res) <= out.n
            /\ returned \subseteq rows
            /\ Cardinality(returned) = Len(res)
            /\ \A r \in returned : notna(r[m])
            /\ \A k \in 1..(Len(res) - 1) : before(res[k][m], res[k + 1][m])
            /\ \A r \in returned : \A o \in rows \ returned :
                    notna(o[m]) => before(r[m], o[m])
            /\ \A o \in rows \ returned : notna(o[m]) => Len(res) = out.n

C24_Witness ==
    /\ out.op = "top" /\ out.n = 1 /\ out.ascending /\ out.metric = "vacancy_rate"
    /\ Len(out.df_snap) = 2 /\ Len(out.result) = 1
    /\ out.result[1] = out.df_snap[2]
    /\ Gt(out.df_snap[1].vacancy_rate, out.df_snap[2].vacancy_rate)

\* C25: classify_vacancy_level gives one label for every rate, Unknown for a
\* missing rate, and otherwise a label whose stated range holds the rate: Very
\* Low only below 5, Low only in [5, 7], Moderate only in [7, 9], High only in
\* [9, 12], Very High only above 12.
C25_LabelRangeHoldsRate ==
    out.op = "classify" =>
        LET rate == out.rate
            ge(a, b) == notna(a) /\ ~Lt(a, b)
            le(a, b) == notna(a) /\ ~Gt(a, b)
        IN  /\ out.label \in {"Unknown", "Very Low (<5%)", "Low (5-7%)", "Moderate (7-9%)",
                              "High (9-12%)", "Very High (>12%)"}
            /\ isna(rate) => out.label = "Unknown"
            /\ out.label = "Unknown" => isna(rate)
            /\ out.label = "Very Low (<5%)" => Lt(rate, Num(5))
            /\ out.label = "Low (5-7%)" => ge(rate, Num(5)) /\ le(rate, Num(7))
            /\ out.label = "Moderate (7-9%)" => ge(rate, Num(7)) /\ le(rate, Num(9))
            /\ out.label = "High (9-12%)" => ge(rate, Num(9)) /\ le(rate, Num(12))
            /\ out.label = "Very High (>12%)" => Gt(rate, Num(12))

\* C26: for every department row and every year suffix, the vacancy_rate, the
\* longterm_vacancy_rate and the total_properties of the time series record of
\* year 2000 + Y equal those of the snapshot of suffix Y (both missing or the
\* same number).
C26_TimeseriesAgreesWithSnapshot ==
    out.op = "timeseries" =>
        \A i \in 1..Len(df), j \in 1..Len(years) :
            LET ts == out.result[(i - 1) * Len(years) + j]
                snap == prepare_department_snapshot(df, years[j]).rows[i]
            IN  /\ ts.year = year_full(years[j])
                /\ ts.vacancy_rate = snap.vacancy_rate
                /\ ts.longterm_vacancy_rate = snap.longterm_vacancy_rate
                /\ ts.total_properties = snap.total_properties

\* a ratio that is missing, and never infinite, when its denominator is 0 or
\* missing
NullOnBadDenominator(ratio, den) ==
    /\ ratio.k # "inf"
    /\ (isna(den) \/ den = Num(0)) => isna(ratio)

\* C27: longterm_share (vacant_2y / vacant * 100) and vacant_change_pct (change
\* of vacant over vacant of the year before * 100) are missing and never
\* infinite whenever their denominator is 0 or missing, in the time series, the
\* national aggregates, the department snapshot and the commune snapshot.
C27_RatiosNullOnBadDenominator ==
    /\ out.op \in {"timeseries", "national"} =>
        \A k \in 1..Len(out.result) :
            NullOnBadDenominator(out.result[k].longterm_share,
                                 out.result[k].vacant_properties)
    /\ out.op = "commune_snapshot" =>
        \A i \in 1..Len(out.result) :
            NullOnBadDenominator(out.result[i].longterm_share,
                                 out.result[i].vacant_properties)
    /\ out.op = "dept_snapshot" =>
        \A i \in 1..Len(out.result.rows) :
            /\ NullOnBadDenominator(out.result.rows[i].longterm_share,
                                    out.result.rows[i].vacant_properties)
            /\ "vacant_change_pct" \in out.result.columns =>
                NullOnBadDenominator(out.result.rows[i].vacant_change_pct,
                                     df[i].cells[col("pp_vacant", prev_year_of(out.year))])

\* C28: prepare_department_snapshot(df, year) adds vacant_change and
\* vacant_change_pct exactly for the suffixes 21..25 (not 20); vacant_change
\* is then pp_vacant of the year minus pp_vacant of the year before, and the
\* snapshot has one row per department row of the table.
C28_SnapshotYearOverYearChange ==
    out.op = "dept_snapshot" =>
        LET snap == out.result
            added == {"vacant_change", "vacant_change_pct"} \cap snap.columns
            j == CHOOSE k \in 1..Len(years) : years[k] = out.year
        IN  /\ added = (IF out.year = "20" THEN {}
                        ELSE {"vacant_change", "vacant_change_pct"})
            /\ Len(snap.rows) = Len(df)
            /\ \A i \in 1..Len(df) :
                /\ snap.rows[i].DEP = df[i].keys.DEP
                /\ out.year # "20" =>
                    LET cur == df[i].cells[<<"pp_vacant", years[j]>>]
                        prev == df[i].cells[<<"pp_vacant", years[j - 1]>>]
                    IN  snap.rows[i].vacant_change
                            = IF isfinite(cur) /\ isfinite(prev)
                              THEN Frac(cur.n * prev.d - prev.n * cur.d, cur.d * prev.d)
                              ELSE NaN

C28_Witness ==
    /\ out.op = "dept_snapshot" /\ out.year = "25" /\ Len(out.result.rows) = 2
    /\ "vacant_change" \in out.result.columns
    /\ df[1].cells[<<"pp_vacant", "25">>] = Num(0)
    /\ out.result.rows[1].vacant_change = Num(-7)
    /\ isna(out.result.rows[2].vacant_change)

C30_ViewsNeverRaise ==
    /\ out.op = "departmental_view" =>
        /\ pc = "viewed" /\ ~out.view.raised
        /\ (Len(out.view.valid) = 0) = (out.view.shown = "no valid data")
    /\ out.op = "commune_view" =>
        /\ pc = "viewed" /\ out.view.raised = "none"
        /\ out.view.communes = 0 =>
            (out.view.avg_rate_str = "N/A" /\ out.view.median_str = "N/A")

====
